---- MODULE Spec2Model ----
(***************************************************************************)
(* The storefront's database layer and the client handlers that write to   *)
(* it: the addresses table with its default-address trigger, and the       *)
(* orders table with its order-number trigger, under the row-level         *)
(* security policies of the migration.  A write is a PostgreSQL statement  *)
(* run in its own READ COMMITTED transaction on behalf of one user.        *)
(***************************************************************************)
EXTENDS Integers, Sequences, FiniteSets, TLC

\* ------------------------------------------------------------------ bounds
Users == {"u1", "u2"}

\* sessions that may have a statement in flight at the same time
Tx == {1, 2}

\* address rows ever inserted
MaxAddr == 3

\* order rows ever stored
MaxOrders == 3

\* calendar days the clock runs through
MaxDay == 2

\* ------------------------------------------------------------ the state
VARIABLES
  addresses,    \* committed rows of table addresses: id -> row
  nextAddrId,   \* ids handed out so far by gen_random_uuid(), as a counter
  atx,          \* per session: the address statement in flight
  alast,        \* per session: what its last finished statement was (history)
  orders,       \* committed rows of table orders: id -> row
  nextOrderId,  \* ids handed out so far by gen_random_uuid(), as a counter
  otx,          \* per session: the order insert in flight
  olast,        \* per session: what its last finished insert was (history)
  today,        \* the server's calendar day, an index into the days
  gone,         \* users removed from auth.users
  issued,       \* order numbers the allocator has written into committed rows (history)
  order_items,  \* committed rows of table order_items
  cartItems,    \* the cart context's cartItems, as the products in the cart
  co,           \* the checkout page: its React state and its handler's position
  wishlists,    \* committed rows of table wishlists: id -> row
  nextWishId,   \* ids handed out so far by gen_random_uuid(), as a counter
  buttons,      \* the WishlistButton components on screen: their props and state
  wpage,        \* the wishlist page: the position of its handler moveToCart
  pp            \* the products page: its filter, state and loads in flight

avars == <<addresses, nextAddrId, atx, alast>>

ovars == <<orders, nextOrderId, otx, olast, today, gone, issued>>

cvars == <<order_items, cartItems, co>>

wvars == <<wishlists, nextWishId, buttons, wpage>>

vars == <<addresses, nextAddrId, atx, alast, orders, nextOrderId, otx, olast,
          today, gone, issued, order_items, cartItems, co, wishlists, nextWishId,
          buttons, wpage, pp>>

\* ---------------------------------------------------------- addresses
\* is_default is a nullable boolean column
T == "true"
F == "false"
NULL == "null"
DefaultVals == {T, F, NULL}

\* SET is_default = ...; Keep: the statement leaves the column alone
Keep == "keep"

AddrIds == 1..MaxAddr

\* the texts of an address form (name, address lines, city, ...), as one value
Names == {"a", "b"}

\* a row with the texts the form starts with
AddressRow(u, d) == [user_id |-> u, is_default |-> d, name |-> "a"]

Deleted == [user_id |-> "-", is_default |-> "-", name |-> "-"]

AtxIdle ==
  [pc |-> "idle", uid |-> "-", kind |-> "-", setd |-> "-", targets |-> {},
   cur |-> 0, new |-> Deleted, sibs |-> {}, writes |-> <<>>, outer |-> {},
   locked |-> {}, then |-> 0, setn |-> "keep", setu |-> "keep",
   call |-> "-", was |-> FALSE, fired |-> 0]

NoStmt ==
  [kind |-> "-", owner |-> "-", d |-> "-", res |-> "-", id |-> 0,
   displaced |-> FALSE, overlap |-> FALSE, undone |-> FALSE]

\* a USING clause that lets every row through
AddrUsing_AnyRow(uid, row) == TRUE

\* the policy "Users can manage own addresses": USING (auth.uid() = user_id)
AddrUsing(uid, row) == uid = row.user_id

\* ... WITH CHECK (auth.uid() = user_id)
AddrWithCheck(uid, row) == uid = row.user_id

\* name text NOT NULL (as address_line_1, city, postal_code)
AddrNotNull(row) == row.name # NULL

\* trigger invocations followed within one statement
MaxFired == MaxAddr + 3

\* what session t reads: the committed rows overlaid with its own writes
Visible(t) ==
  LET w == atx[t].writes
      ids == {i \in (DOMAIN addresses) \cup (DOMAIN w) :
                 IF i \in DOMAIN w THEN w[i] # Deleted ELSE TRUE}
  IN [i \in ids |-> IF i \in DOMAIN w THEN w[i] ELSE addresses[i]]

LockedByOther(t, i) == \E o \in Tx \ {t} : i \in atx[o].locked

DefaultsOf(tbl, u) ==
  {i \in DOMAIN tbl : tbl[i].user_id = u /\ tbl[i].is_default = T}

\* The rows the trigger's UPDATE reaches: the body of
\* ensure_single_default_address for the row NEW with id newid, run by uid
\* over the rows vis that the statement can see.
ensure_single_default_address_NoClear(uid, new, newid, vis) == {}

\* the UPDATE of the siblings without the test of NEW.is_default
ensure_single_default_address_Always(uid, new, newid, vis) ==
  {s \in DOMAIN vis :
     /\ vis[s].user_id = new.user_id
     /\ s # newid
     /\ AddrUsing(uid, vis[s])}

\* the trigger created BEFORE INSERT only
ensure_single_default_address_InsertOnly(uid, new, newid, vis) ==
  IF new.is_default = T /\ newid \notin DOMAIN vis
    THEN {s \in DOMAIN vis :
            /\ vis[s].user_id = new.user_id
            /\ s # newid
            /\ AddrUsing(uid, vis[s])}
    ELSE {}

ensure_single_default_address(uid, new, newid, vis) ==
  IF new.is_default = T
    THEN {s \in DOMAIN vis :
            /\ vis[s].user_id = new.user_id
            /\ s # newid
            /\ AddrUsing(uid, vis[s])}
    ELSE {}

\* SET clause of an UPDATE applied to the row's latest version
ApplySet(row, d) == IF d = Keep THEN row ELSE [row EXCEPT !.is_default = d]

\* ... SET name = n, address_line_1 = ..., ...
ApplyName(row, n) == IF n = Keep THEN row ELSE [row EXCEPT !.name = n]

\* ... SET user_id = v
ApplyOwner(row, v) == IF v = Keep THEN row ELSE [row EXCEPT !.user_id = v]

\* session o has a statement in flight
InFlight(o) == atx[o].pc \in {"row", "sib"}

OtherActive(t) == \E o \in Tx \ {t} : InFlight(o)

\* history: a statement of session t starts; it overlaps whatever is in flight
Started(t) ==
  [o \in Tx |->
     IF o = t THEN [NoStmt EXCEPT !.overlap = OtherActive(t)]
     ELSE IF InFlight(o) THEN [alast[o] EXCEPT !.overlap = TRUE]
     ELSE alast[o]]

\* history: the statement of session t ends with result res
Finished(t, res) ==
  LET wrote == res = "ok" /\ atx[t].outer # {}
  IN [alast EXCEPT ![t] =
     [kind |-> atx[t].kind, owner |-> atx[t].uid,
      d |-> IF wrote THEN atx[t].new.is_default ELSE "-",
      res |-> res,
      id |-> IF wrote /\ Cardinality(atx[t].outer) = 1 THEN atx[t].cur ELSE 0,
      displaced |-> wrote /\ DefaultsOf(addresses, atx[t].uid) \ atx[t].outer # {},
      overlap |-> alast[t].overlap,
      undone |-> /\ res = "error"
                 /\ \E s \in (DOMAIN atx[t].writes) \ atx[t].outer :
                       /\ s \in DOMAIN addresses
                       /\ addresses[s].is_default = T
                       /\ atx[t].writes[s].is_default = F]]

\* a failed statement whose writes stay
AddrRollback_KeepWrites(t) ==
  /\ atx' = [atx EXCEPT ![t] =
       IF atx[t].then # 0
         THEN [AtxIdle EXCEPT !.pc = "next", !.uid = atx[t].uid, !.then = atx[t].then,
                              !.was = atx[t].was]
         ELSE AtxIdle]
  /\ alast' = Finished(t, "error")
  /\ addresses' = Visible(t)
  /\ UNCHANGED nextAddrId

\* the transaction of session t ends: rolled back, its locks released
AddrRollback(t) ==
  /\ atx' = [atx EXCEPT ![t] =
       IF atx[t].then # 0
         THEN [AtxIdle EXCEPT !.pc = "next", !.uid = atx[t].uid, !.then = atx[t].then,
                              !.was = atx[t].was]
         ELSE AtxIdle]
  /\ alast' = Finished(t, "error")
  /\ UNCHANGED <<addresses, nextAddrId>>

\* INSERT INTO addresses (user_id, is_default, ...) VALUES (v, d, ...), sent by
\* uid; handleSubmit sends v = uid.  The BEFORE INSERT trigger runs first and
\* starts its UPDATE of the sibling rows.
AddrInsert(t, uid, v, d) ==
  /\ UNCHANGED <<ovars, cvars, wvars, pp>>
  /\ atx[t].pc = "idle"
  /\ nextAddrId <= MaxAddr
  /\ LET new == AddressRow(v, d)
     IN atx' = [atx EXCEPT ![t] =
          [AtxIdle EXCEPT !.pc = "sib", !.uid = uid, !.kind = "insert",
             !.setd = d, !.cur = nextAddrId, !.new = new, !.fired = 1,
             !.sibs = ensure_single_default_address(uid, new, nextAddrId, Visible(t))]]
  /\ nextAddrId' = nextAddrId + 1
  /\ alast' = Started(t)
  /\ UNCHANGED addresses

\* UPDATE addresses SET is_default = d WHERE id = x, sent by uid (handleSubmit's
\* update, setAsDefault's second write): the rows the statement's snapshot
\* holds that pass the policy's USING
AddrUpdateById(t, uid, x, d) ==
  /\ UNCHANGED <<ovars, cvars, wvars, pp>>
  /\ atx[t].pc = "idle"
  /\ x \in DOMAIN addresses
  /\ atx' = [atx EXCEPT ![t] =
       [AtxIdle EXCEPT !.pc = "row", !.uid = uid, !.kind = "update", !.setd = d,
          !.targets = {i \in {x} : AddrUsing(uid, addresses[i])}]]
  /\ alast' = Started(t)
  /\ UNCHANGED <<addresses, nextAddrId>>

\* UPDATE addresses SET is_default = d WHERE user_id = v, sent by uid
AddrUpdateByUser(t, uid, v, d, then) ==
  /\ UNCHANGED <<ovars, cvars, wvars, pp>>
  /\ atx[t].pc = "idle"
  /\ atx' = [atx EXCEPT ![t] =
       [AtxIdle EXCEPT !.pc = "row", !.uid = uid, !.kind = "update", !.setd = d,
          !.then = then,
          !.was = then # 0 /\ DefaultsOf(addresses, uid) # {},
          !.targets = {i \in DOMAIN addresses :
                          addresses[i].user_id = v /\ AddrUsing(uid, addresses[i])}]]
  /\ alast' = Started(t)
  /\ UNCHANGED <<addresses, nextAddrId>>

\* UPDATE addresses SET user_id = v, is_default = d WHERE id = x, sent by uid
\* through the same interface as the page's updates
AddrUpdateOwner(t, uid, x, v, d) ==
  /\ UNCHANGED <<ovars, cvars, wvars, pp>>
  /\ atx[t].pc = "idle"
  /\ x \in DOMAIN addresses
  /\ atx' = [atx EXCEPT ![t] =
       [AtxIdle EXCEPT !.pc = "row", !.uid = uid, !.kind = "update", !.setd = d,
          !.setu = v,
          !.targets = {i \in {x} : AddrUsing(uid, addresses[i])}]]
  /\ alast' = Started(t)
  /\ UNCHANGED <<addresses, nextAddrId>>

\* handleDelete: DELETE FROM addresses WHERE id = x, sent by uid
handleDelete(t, uid, x) ==
  /\ UNCHANGED <<ovars, cvars, wvars, pp>>
  /\ atx[t].pc = "idle"
  /\ x \in DOMAIN addresses
  /\ atx' = [atx EXCEPT ![t] =
       [AtxIdle EXCEPT !.pc = "row", !.uid = uid, !.kind = "delete",
          !.targets = {i \in {x} : AddrUsing(uid, addresses[i])}]]
  /\ alast' = Started(t)
  /\ UNCHANGED <<addresses, nextAddrId>>

\* setAsDefault, first write: is_default = false on all rows of the user; its
\* result is not looked at, the second write follows in any case.  was: the
\* user has a default address when the handler is called.
setAsDefault(t, uid, x) ==
  /\ x \in DOMAIN addresses
  /\ AddrUpdateByUser(t, uid, uid, F, x)

\* setAsDefault, second write: is_default = true on the chosen row
setAsDefaultSet(t) ==
  /\ UNCHANGED <<ovars, cvars, wvars, pp>>
  /\ atx[t].pc = "next"
  /\ atx' = [atx EXCEPT ![t] =
       [AtxIdle EXCEPT !.pc = "row", !.uid = atx[t].uid, !.kind = "update", !.setd = T,
          !.call = "setAsDefault", !.was = atx[t].was,
          !.targets = {i \in {atx[t].then} \cap DOMAIN addresses :
                          AddrUsing(atx[t].uid, addresses[i])}]]
  /\ alast' = Started(t)
  /\ UNCHANGED <<addresses, nextAddrId>>

\* The statement takes its next target row: it waits while another transaction
\* holds the row, skips a row deleted meanwhile, fails on a row its own trigger
\* has already modified, and otherwise locks the row's latest version; for an
\* UPDATE the BEFORE UPDATE trigger then runs on NEW.
AddrRow(t) ==
  /\ UNCHANGED <<ovars, cvars, wvars, pp>>
  /\ atx[t].pc = "row"
  /\ \E r \in atx[t].targets :
       /\ ~LockedByOther(t, r)
       /\ IF r \in DOMAIN atx[t].writes
            THEN AddrRollback(t)
            ELSE
              /\ UNCHANGED <<addresses, nextAddrId, alast>>
              /\ IF r \notin DOMAIN addresses
                   THEN atx' = [atx EXCEPT ![t].targets = @ \ {r}]
                   ELSE IF atx[t].kind = "delete"
                     THEN atx' = [atx EXCEPT ![t].targets = @ \ {r},
                                             ![t].locked = @ \cup {r},
                                             ![t].outer = @ \cup {r},
                                             ![t].writes = (r :> Deleted) @@ @]
                     ELSE LET new == ApplyOwner(
                                       ApplyName(ApplySet(addresses[r], atx[t].setd),
                                                 atx[t].setn),
                                       atx[t].setu)
                          IN atx' = [atx EXCEPT ![t].targets = @ \ {r},
                                  ![t].locked = @ \cup {r},
                                  ![t].cur = r,
                                  ![t].new = new,
                                  ![t].pc = "sib",
                                  ![t].fired = @ + 1,
                                  ![t].sibs = ensure_single_default_address(
                                                 atx[t].uid, new, r, Visible(t))]

\* a trigger UPDATE that sets is_default = true on the siblings
AddrSibling_Promote(t) ==
  /\ UNCHANGED <<ovars, cvars, wvars, pp>>
  /\ atx[t].pc = "sib"
  /\ atx[t].fired < MaxFired
  /\ \E s \in atx[t].sibs :
       /\ ~LockedByOther(t, s)
       /\ IF s \in DOMAIN Visible(t)
            THEN LET new == [Visible(t)[s] EXCEPT !.is_default = T]
                 IN atx' = [atx EXCEPT
                      ![t].sibs = (@ \ {s}) \cup
                         ensure_single_default_address(atx[t].uid, new, s, Visible(t)),
                      ![t].fired = @ + 1,
                      ![t].locked = @ \cup {s},
                      ![t].writes = (s :> new) @@ @]
            ELSE atx' = [atx EXCEPT ![t].sibs = @ \ {s}]
  /\ UNCHANGED <<addresses, nextAddrId, alast>>

\* One row of the trigger's UPDATE ... SET is_default = false: it waits while
\* another transaction holds the row and skips a row deleted meanwhile.  The
\* trigger fires again for this row, with NEW.is_default = false; the rows its
\* own UPDATE reaches join the rows still to be updated.  fired counts the
\* trigger's invocations in the statement.
AddrSibling(t) ==
  /\ UNCHANGED <<ovars, cvars, wvars, pp>>
  /\ atx[t].pc = "sib"
  /\ atx[t].fired < MaxFired
  /\ \E s \in atx[t].sibs :
       /\ ~LockedByOther(t, s)
       /\ IF s \in DOMAIN Visible(t)
            THEN LET new == [Visible(t)[s] EXCEPT !.is_default = F]
                 IN atx' = [atx EXCEPT
                      ![t].sibs = (@ \ {s}) \cup
                         ensure_single_default_address(atx[t].uid, new, s, Visible(t)),
                      ![t].fired = @ + 1,
                      ![t].locked = @ \cup {s},
                      ![t].writes = (s :> new) @@ @]
            ELSE atx' = [atx EXCEPT ![t].sibs = @ \ {s}]
  /\ UNCHANGED <<addresses, nextAddrId, alast>>

\* The trigger has returned NEW: the column constraints and the policy's WITH
\* CHECK are applied to it and the row is written.
AddrWrite(t) ==
  /\ UNCHANGED <<ovars, cvars, wvars, pp>>
  /\ atx[t].pc = "sib"
  /\ atx[t].sibs = {}
  /\ IF AddrNotNull(atx[t].new) /\ AddrWithCheck(atx[t].uid, atx[t].new)
       THEN /\ atx' = [atx EXCEPT ![t].pc = "row",
                         ![t].writes = (atx[t].cur :> atx[t].new) @@ @,
                         ![t].outer = @ \cup {atx[t].cur},
                         ![t].locked = @ \cup {atx[t].cur}]
            /\ UNCHANGED <<addresses, nextAddrId, alast>>
       ELSE AddrRollback(t)

\* COMMIT
AddrCommit(t) ==
  /\ UNCHANGED <<ovars, cvars, wvars, pp>>
  /\ atx[t].pc = "row"
  /\ atx[t].targets = {}
  /\ addresses' = Visible(t)
  /\ atx' = [atx EXCEPT ![t] =
       IF atx[t].then # 0
         THEN [AtxIdle EXCEPT !.pc = "next", !.uid = atx[t].uid, !.then = atx[t].then,
                              !.was = atx[t].was]
         ELSE AtxIdle]
  /\ alast' = Finished(t, "ok")
  /\ UNCHANGED nextAddrId

\* the row session t could take next but that another transaction holds
WaitsFor(t, o) ==
  \/ atx[t].pc = "row" /\ atx[t].targets \cap atx[o].locked # {}
  \/ atx[t].pc = "sib" /\ atx[t].sibs \cap atx[o].locked # {}

\* deadlock detected: two transactions wait for each other, one is aborted
AddrDeadlock(t) ==
  /\ UNCHANGED <<ovars, cvars, wvars, pp>>
  /\ \E o \in Tx \ {t} : WaitsFor(t, o) /\ WaitsFor(o, t)
  /\ AddrRollback(t)

AddrInit ==
  /\ addresses = <<>>
  /\ nextAddrId = 1
  /\ atx = [t \in Tx |-> AtxIdle]
  /\ alast = [t \in Tx |-> NoStmt]

AddrBegin(t) ==
  \/ \E uid \in Users, v \in Users, d \in DefaultVals : AddrInsert(t, uid, v, d)
  \/ \E uid \in Users, x \in AddrIds, d \in DefaultVals \cup {Keep} :
        AddrUpdateById(t, uid, x, d)
  \/ \E uid \in Users, v \in Users, d \in DefaultVals : AddrUpdateByUser(t, uid, v, d, 0)
  \/ \E uid \in Users, x \in AddrIds : handleDelete(t, uid, x)
  \/ \E uid \in Users, x \in AddrIds : setAsDefault(t, uid, x)
  \/ setAsDefaultSet(t)

AddrStep(t) == AddrRow(t) \/ AddrSibling(t) \/ AddrWrite(t) \/ AddrCommit(t)

\* one statement at a time, each in its own transaction
AddrNextSerial == AddrBegin(1) \/ AddrStep(1)

\* the user whose sessions race
Racer == "u1"

AddrBeginConc(t) ==
  \/ \E d \in {T, F} : AddrInsert(t, Racer, Racer, d)
  \/ \E x \in AddrIds, d \in {T, F} : AddrUpdateById(t, Racer, x, d)
  \/ \E x \in AddrIds : handleDelete(t, Racer, x)
  \/ \E x \in AddrIds : setAsDefault(t, Racer, x)
  \/ setAsDefaultSet(t)

\* statements of the two sessions of one user interleave
AddrNextConc ==
  \E t \in Tx : AddrBeginConc(t) \/ AddrStep(t) \/ AddrDeadlock(t)

\* ------------------------------------------------------------- text
\* A text value is the sequence of its characters.
Digits == <<"0", "1", "2", "3", "4", "5", "6", "7", "8", "9">>

IsDigit(c) == \E n \in 1..10 : Digits[n] = c

DigitVal(c) == (CHOOSE n \in 1..10 : Digits[n] = c) - 1

\* integer::TEXT
RECURSIVE IntToText(_)
IntToText(n) ==
  IF n < 0 THEN <<"-">> \o IntToText(-n)
  ELSE IF n < 10 THEN <<Digits[n + 1]>>
  ELSE IntToText(n \div 10) \o <<Digits[(n % 10) + 1]>>

RECURSIVE DigitsValue(_)
DigitsValue(s) ==
  IF s = <<>> THEN 0
  ELSE DigitsValue(SubSeq(s, 1, Len(s) - 1)) * 10 + DigitVal(s[Len(s)])

Unsigned(s) == IF s # <<>> /\ s[1] \in {"-", "+"} THEN Tail(s) ELSE s

\* CAST(text AS INTEGER) accepts an optional sign and at least one digit, within
\* the range of a 4-byte integer, and raises an error on anything else (the
\* texts here contain no blanks)
IsInteger(s) ==
  /\ Unsigned(s) # <<>>
  /\ \A i \in 1..Len(Unsigned(s)) : IsDigit(Unsigned(s)[i])
  /\ DigitsValue(Unsigned(s)) <= 2147483647

CastInteger(s) ==
  IF s[1] = "-" THEN 0 - DigitsValue(Unsigned(s)) ELSE DigitsValue(Unsigned(s))

RECURSIVE Repeat(_, _)
Repeat(c, n) == IF n <= 0 THEN <<>> ELSE <<c>> \o Repeat(c, n - 1)

\* LPAD(s, len, fill) of PostgreSQL: fills on the left up to len characters,
\* and cuts s on the right when it is longer than len
LPAD(s, len, fill) ==
  IF Len(s) >= len THEN SubSeq(s, 1, len) ELSE Repeat(fill, len - Len(s)) \o s

\* SUBSTRING(s FROM n)
SubstringFrom(s, n) == SubSeq(s, n, Len(s))

\* s LIKE prefix || '%'
LikePrefix(s, prefix) ==
  Len(s) >= Len(prefix) /\ SubSeq(s, 1, Len(prefix)) = prefix

\* TO_CHAR(NOW(), 'YYYYMMDD') on the k-th day of the model
DayText(k) == IntToText(20250916 + k)

\* 'ORD-' || TO_CHAR(NOW(), 'YYYYMMDD') || '-', for each day
OrderPrefixes ==
  [k \in 1..(MaxDay + 1) |-> <<"O", "R", "D", "-">> \o DayText(k) \o <<"-">>]

OrderPrefix(k) == OrderPrefixes[k]

\* -------------------------------------------------------------- orders
\* the SQL null in a text column
SqlNull == <<"NULL">>

\* the request leaves the number to the allocator
NoNumber(preset) == preset = SqlNull \/ preset = <<>>

\* the shipping_address of a request that does not come from the checkout page
NoShip == [name |-> "-"]

\* a row of orders: its user_id, order_number and shipping_address, the day of
\* its created_at, and (history) whether the allocator wrote the number and
\* from which counter
OrderRow(stmt) ==
  [user_id |-> stmt.v, order_number |-> stmt.number, day |-> stmt.now,
   auto |-> NoNumber(stmt.preset), counter |-> stmt.counter,
   shipping_address |-> stmt.ship]

\* the policy "Users can read own orders": USING (auth.uid() = user_id)
OrdersSelectUsing(uid, row) == uid = row.user_id

\* the policy "Users can create own orders": WITH CHECK (auth.uid() = user_id)
OrdersInsertCheck(uid, row) == uid = row.user_id

\* The rows the trigger's subquery reads.  set_order_number is not declared
\* SECURITY DEFINER, so its SELECT runs as the inserting user, under the
\* orders table's SELECT policy.
OrderRowsOfDay(uid, now, tbl) ==
  {i \in DOMAIN tbl :
     /\ OrdersSelectUsing(uid, tbl[i])
     /\ LikePrefix(tbl[i].order_number, OrderPrefix(now))}

SetMax(S) == CHOOSE m \in S : \A x \in S : x <= m

\* SELECT COALESCE(MAX(CAST(SUBSTRING(order_number FROM 14) AS INTEGER)), 0) + 1
OrderCounter_NoIncrement(uid, now, tbl) ==
  LET vals == {CastInteger(SubstringFrom(tbl[i].order_number, 14)) :
                  i \in OrderRowsOfDay(uid, now, tbl)}
  IN IF vals = {} THEN 0 ELSE SetMax(vals)

OrderCounter(uid, now, tbl) ==
  LET vals == {CastInteger(SubstringFrom(tbl[i].order_number, 14)) :
                  i \in OrderRowsOfDay(uid, now, tbl)}
  IN (IF vals = {} THEN 0 ELSE SetMax(vals)) + 1

\* the CAST in the subquery raises an error on some row
OrderCounterFails(uid, now, tbl) ==
  \E i \in OrderRowsOfDay(uid, now, tbl) :
     ~IsInteger(SubstringFrom(tbl[i].order_number, 14))

\* the variant of the function kept in the migrations' README: no test of
\* NEW.order_number
set_order_number_Unconditional(uid, preset, now, tbl) ==
  LET c == OrderCounter(uid, now, tbl)
  IN IF OrderCounterFails(uid, now, tbl)
       THEN [err |-> TRUE, order_number |-> preset, counter |-> 0]
       ELSE [err |-> FALSE,
             order_number |-> OrderPrefix(now) \o LPAD(IntToText(c), 4, "0"),
             counter |-> c]

\* The trigger function: NEW.order_number on return, or the error it raised;
\* counter is the value of the subquery (0: the function did not run it).
set_order_number(uid, preset, now, tbl) ==
  LET c == OrderCounter(uid, now, tbl)
  IN IF NoNumber(preset)
       THEN IF OrderCounterFails(uid, now, tbl)
         THEN [err |-> TRUE, order_number |-> preset, counter |-> 0]
         ELSE [err |-> FALSE,
               order_number |-> OrderPrefix(now) \o LPAD(IntToText(c), 4, "0"),
               counter |-> c]
       ELSE [err |-> FALSE, order_number |-> preset, counter |-> 0]

\* orders.order_number UNIQUE, against the committed rows
UniqueViolation_Off(number, tbl) == FALSE

UniqueViolation(number, tbl) ==
  \E i \in DOMAIN tbl : tbl[i].order_number = number

OtxIdle ==
  [pc |-> "idle", uid |-> "-", v |-> "-", preset |-> SqlNull, now |-> 0,
   number |-> SqlNull, counter |-> 0, id |-> 0, ship |-> NoShip]

NoInsert ==
  [res |-> "-", why |-> "-", uid |-> "-", v |-> "-", now |-> 0, preset |-> SqlNull,
   number |-> SqlNull, counter |-> 0, id |-> 0, overlap |-> FALSE, again |-> FALSE]

OrderInFlight(o) == otx[o].pc # "idle"

OrderOtherActive(t) == \E o \in Tx \ {t} : OrderInFlight(o)

\* history: the insert of session t ends; olast[t] describes it until the
\* next step that is not part of an insert
OrderFinished(t, stmt, res, why) ==
  [olast EXCEPT ![t] =
     [res |-> res, why |-> why, uid |-> stmt.uid, v |-> stmt.v, now |-> stmt.now,
      preset |-> stmt.preset, number |-> stmt.number, counter |-> stmt.counter,
      id |-> IF res = "ok" THEN stmt.id ELSE 0,
      overlap |-> stmt.overlap,
      again |-> res = "ok" /\ NoNumber(stmt.preset) /\ stmt.number \in issued]]

\* the order numbers a request may carry: none, the empty text, well-formed
\* numbers of the first day, a number without suffix and one whose suffix is
\* no number
Presets ==
  {SqlNull, <<>>,
   OrderPrefix(1) \o <<"0", "0", "0", "7">>,
   OrderPrefix(1) \o <<"9", "9", "9", "9">>,
   OrderPrefix(1),
   OrderPrefix(1) \o <<"0", "0", "x", "7">>}

\* INSERT INTO orders (user_id, order_number, shipping_address, ...)
\* VALUES (v, preset, ship, ...), sent by uid; handlePaymentSubmit sends v = uid
\* and no order_number.  NOW() is the start of the transaction.  The BEFORE
\* INSERT trigger runs first.
OrderInsertData(t, uid, v, preset, ship) ==
  /\ UNCHANGED <<avars, wvars, pp>>
  /\ otx[t].pc = "idle"
  /\ nextOrderId <= MaxOrders
  /\ uid \notin gone
  /\ LET r == set_order_number(uid, preset, today, orders)
         stmt == [pc |-> "ins", uid |-> uid, v |-> v, preset |-> preset,
                  now |-> today, number |-> r.order_number, counter |-> r.counter,
                  id |-> 0, ship |-> ship]
         ov == OrderOtherActive(t)
     IN IF r.err
          THEN /\ otx' = otx
               /\ olast' = [o \in Tx |->
                    IF o = t THEN OrderFinished(t, stmt @@ [overlap |-> ov], "error", "cast")[t]
                    ELSE olast[o]]
          ELSE /\ otx' = [otx EXCEPT ![t] = stmt]
               /\ olast' = [o \in Tx |->
                    IF o = t THEN [NoInsert EXCEPT !.overlap = ov]
                    ELSE IF OrderInFlight(o) THEN [olast[o] EXCEPT !.overlap = TRUE]
                    ELSE olast[o]]
  /\ UNCHANGED <<orders, nextOrderId, today, gone, issued>>

\* an insert that does not come from the checkout page
OrderInsert(t, uid, v, preset) ==
  /\ OrderInsertData(t, uid, v, preset, NoShip)
  /\ UNCHANGED cvars

\* The trigger has returned NEW: the INSERT policy's WITH CHECK, NOT NULL and
\* then the unique index are applied.  An equal number written by a
\* transaction still in progress makes the insert wait for it.
OrderWrite(t) ==
  /\ UNCHANGED <<avars, cvars, wvars, pp>>
  /\ otx[t].pc = "ins"
  /\ LET stmt == otx[t] @@ [overlap |-> olast[t].overlap]
     IN IF ~OrdersInsertCheck(stmt.uid, OrderRow(stmt))
          THEN /\ otx' = [otx EXCEPT ![t] = OtxIdle]
               /\ olast' = OrderFinished(t, stmt, "error", "rls")
               /\ UNCHANGED nextOrderId
          ELSE IF UniqueViolation(stmt.number, orders)
            THEN /\ otx' = [otx EXCEPT ![t] = OtxIdle]
                 /\ olast' = OrderFinished(t, stmt, "error", "unique")
                 /\ UNCHANGED nextOrderId
            ELSE /\ ~\E o \in Tx \ {t} :
                        otx[o].pc = "commit" /\ otx[o].number = stmt.number
                 /\ otx' = [otx EXCEPT ![t].pc = "commit", ![t].id = nextOrderId]
                 /\ nextOrderId' = nextOrderId + 1
                 /\ olast' = olast
  /\ UNCHANGED <<orders, today, gone, issued>>

\* COMMIT
OrderCommit(t) ==
  /\ UNCHANGED <<avars, cvars, wvars, pp>>
  /\ otx[t].pc = "commit"
  /\ LET stmt == otx[t] @@ [overlap |-> olast[t].overlap]
     IN /\ orders' = (stmt.id :> OrderRow(stmt)) @@ orders
        /\ olast' = OrderFinished(t, stmt, "ok", "-")
        /\ issued' = IF NoNumber(stmt.preset) THEN issued \cup {stmt.number} ELSE issued
  /\ otx' = [otx EXCEPT ![t] = OtxIdle]
  /\ UNCHANGED <<nextOrderId, today, gone>>

\* midnight on the server
NextDay ==
  /\ UNCHANGED <<avars, cvars, wvars, pp>>
  /\ today < MaxDay
  /\ today' = today + 1
  /\ olast' = [t \in Tx |-> [NoInsert EXCEPT !.overlap = olast[t].overlap]]
  /\ UNCHANGED <<orders, nextOrderId, otx, gone, issued>>

\* A user is removed from auth.users: the rows that reference it with
\* ON DELETE CASCADE go with it.
DeleteUser(u) ==
  /\ u \notin gone
  /\ \A t \in Tx : otx[t].pc = "idle" /\ atx[t].pc = "idle"
  /\ gone' = gone \cup {u}
  /\ orders' = [i \in {j \in DOMAIN orders : orders[j].user_id # u} |-> orders[i]]
  /\ addresses' = [i \in {j \in DOMAIN addresses : addresses[j].user_id # u} |->
                     addresses[i]]
  /\ olast' = [t \in Tx |-> NoInsert]
  /\ order_items' = {r \in order_items : orders[r.order_id].user_id # u}
  /\ wishlists' = [i \in {j \in DOMAIN wishlists : wishlists[j].user_id # u} |->
                     wishlists[i]]
  /\ UNCHANGED <<nextAddrId, atx, alast, nextOrderId, otx, today, issued,
                 cartItems, co, nextWishId, buttons, wpage, pp>>

OrderInit ==
  /\ orders = <<>>
  /\ nextOrderId = 1
  /\ otx = [t \in Tx |-> OtxIdle]
  /\ olast = [t \in Tx |-> NoInsert]
  /\ today = 1
  /\ gone = {}
  /\ issued = {}

\* the requests of one session: the checkout page's, one that carries an order
\* number, and one that names another user as the owner
OrderBegin(t) ==
  \/ \E uid \in Users, preset \in Presets : OrderInsert(t, uid, uid, preset)
  \/ \E uid \in Users : \E v \in Users \ {uid} : OrderInsert(t, uid, v, SqlNull)

\* the requests that race: the checkout page's (no order number) and one that
\* carries a number
OrderBeginConc(t) ==
  \E uid \in Users, preset \in {SqlNull, OrderPrefix(1) \o <<"0", "0", "0", "7">>} :
     OrderInsert(t, uid, uid, preset)

OrderStep(t) == OrderWrite(t) \/ OrderCommit(t)

\* one insert at a time, each in its own transaction
OrderNextSerial ==
  \/ OrderBegin(1)
  \/ OrderStep(1)
  \/ NextDay
  \/ \E u \in Users : DeleteUser(u)

\* inserts of the two sessions interleave
OrderNextConc ==
  \/ \E t \in Tx : OrderBeginConc(t) \/ OrderStep(t)
  \/ NextDay

\* ------------------------------------------------------------ checkout
\* the products a cart can hold
Products == {"p1"}

\* address rows of the user at a checkout among other users' orders
MaxCoAddr == 1

\* address rows of the user whose address book changes around a checkout
MaxBook == 2

\* order rows stored by a checkout around which the address book changes
MaxCoOrders == 1

\* selectedAddress before any address is chosen
NoAddress == [id |-> 0, name |-> "-"]

\* useState(...) of CheckoutPage, with the page not yet mounted; pc is the
\* await the handler handlePaymentSubmit stands at; of the listed addresses
\* the texts are kept
CoClosed ==
  [pc |-> "closed", currentStep |-> 1, addresses |-> <<>>,
   selectedAddress |-> NoAddress, loading |-> FALSE, error |-> "",
   orderPlaced |-> FALSE, newOrderId |-> SqlNull, order |-> 0,
   navigated |-> "-"]

\* an order that stores no text of the selected address
ShippingAddress_Blank(sel) == [name |-> "-"]

\* orderData.shipping_address: the fields of selectedAddress, copied
ShippingAddress(sel) == [name |-> sel.name]

\* the policy "Users can create order items": WITH CHECK (EXISTS (SELECT 1 FROM
\* orders WHERE orders.id = order_items.order_id AND orders.user_id = auth.uid()))
OrderItemsInsertCheck(uid, row) ==
  row.order_id \in DOMAIN orders /\ orders[row.order_id].user_id = uid

\* cartItems.map(item => ({order_id: order.id, product_id: item.product_id, ...}))
OrderItemsOf(order, cart) == {[order_id |-> order, product_id |-> p] : p \in cart}

\* The user is at one page at a time: the steps the user takes at the checkout
\* page find no address statement of the user under way (atx[1] idle).

\* The page mounts with a user and a cart that is not empty: the effect calls
\* loadAddresses, which stores the user's address rows and selects the default
\* one if there is one.
loadAddresses ==
  /\ co.pc = "closed"
  /\ atx[1].pc = "idle"
  /\ cartItems # {}
  /\ LET data == [i \in {j \in DOMAIN addresses :
                           /\ addresses[j].user_id = Racer
                           /\ AddrUsing(Racer, addresses[j])} |-> addresses[i]]
         defaults == {i \in DOMAIN data : data[i].is_default = T}
     IN co' = [co EXCEPT !.pc = "view",
                  !.addresses = [i \in DOMAIN data |-> [name |-> data[i].name]],
                  !.selectedAddress =
                     IF defaults = {} THEN NoAddress
                     ELSE LET i == CHOOSE j \in defaults : \A k \in defaults : j <= k
                          IN [id |-> i, name |-> data[i].name]]
  /\ UNCHANGED <<avars, ovars, order_items, cartItems, wvars, pp>>

\* the radio button of a listed address: setSelectedAddress(address)
selectAddress(a) ==
  /\ co.pc = "view"
  /\ atx[1].pc = "idle"
  /\ co.currentStep = 1
  /\ a \in DOMAIN co.addresses
  /\ co' = [co EXCEPT !.selectedAddress = [id |-> a, name |-> co.addresses[a].name]]
  /\ UNCHANGED <<avars, ovars, order_items, cartItems, wvars, pp>>

\* a shipping form that does not ask for a selected address
handleAddressSubmit_NoCheck ==
  /\ co.pc = "view"
  /\ atx[1].pc = "idle"
  /\ co.currentStep = 1
  /\ DOMAIN co.addresses # {}
  /\ co' = [co EXCEPT !.error = "", !.currentStep = 2]
  /\ UNCHANGED <<avars, ovars, order_items, cartItems, wvars, pp>>

\* the shipping form, shown at step 1 when addresses are listed
handleAddressSubmit ==
  /\ co.pc = "view"
  /\ atx[1].pc = "idle"
  /\ co.currentStep = 1
  /\ DOMAIN co.addresses # {}
  /\ co' = IF co.selectedAddress = NoAddress
             THEN [co EXCEPT !.error = "Please select a shipping address"]
             ELSE [co EXCEPT !.error = "", !.currentStep = 2]
  /\ UNCHANGED <<avars, ovars, order_items, cartItems, wvars, pp>>

\* A link of the page (Add New Address, Back to Cart, View Orders, Continue
\* Shopping) is followed while no handler runs: the page unmounts and its state
\* is gone.
leaveCheckout ==
  /\ co.pc = "view"
  /\ co' = CoClosed
  /\ UNCHANGED <<avars, ovars, order_items, cartItems, wvars, pp>>

\* useEffect(..., [user, cartItems, navigate]) runs again after the render in
\* which cartItems has changed: with an empty cart it calls navigate('/cart')
\* and the page unmounts, whatever orderPlaced is.
emptyCartEffect ==
  /\ co.pc = "view"
  /\ cartItems = {}
  /\ co' = [CoClosed EXCEPT !.navigated = "/cart"]
  /\ UNCHANGED <<avars, ovars, order_items, cartItems, wvars, pp>>

\* the button Back to Shipping of step 2: setCurrentStep(1)
BackToShipping ==
  /\ co.pc = "view"
  /\ atx[1].pc = "idle"
  /\ co.currentStep = 2
  /\ co' = [co EXCEPT !.currentStep = 1]
  /\ UNCHANGED <<avars, ovars, order_items, cartItems, wvars, pp>>

\* handlePaymentSubmit up to its first await; the Place Order button is
\* disabled while loading.  cardOk: the payment method is not card, or the
\* card form is filled in.  With it the insert of the order is sent.
handlePaymentSubmit(cardOk) ==
  /\ co.pc = "view"
  /\ atx[1].pc = "idle"
  /\ co.currentStep = 2
  /\ ~co.loading
  /\ IF ~cardOk
       THEN /\ co' = [co EXCEPT !.error = "Please fill in all card details",
                                !.loading = FALSE]
            /\ UNCHANGED <<avars, ovars, order_items, cartItems, wvars, pp>>
       ELSE /\ OrderInsertData(1, Racer, Racer, SqlNull,
                               ShippingAddress(co.selectedAddress))
            /\ co' = [co EXCEPT !.pc = "order", !.loading = TRUE, !.error = ""]
            /\ UNCHANGED <<order_items, cartItems>>

\* a catch without the finally block
CheckoutFailed_NoFinally(message) ==
  [co EXCEPT !.pc = "view", !.error = message]

\* catch (error) { setError(...) } finally { setLoading(false) }
CheckoutFailed(message) ==
  [co EXCEPT !.pc = "view", !.error = message, !.loading = FALSE]

\* The insert of the order has returned.  if (orderError) throw orderError;
\* otherwise the insert of the order items is sent.
OrderResponse ==
  /\ co.pc = "order"
  /\ otx[1].pc = "idle"
  /\ co' = IF olast[1].res = "error"
             THEN CheckoutFailed(olast[1].why)
             ELSE [co EXCEPT !.pc = "items", !.order = olast[1].id]
  /\ UNCHANGED <<avars, ovars, order_items, cartItems, wvars, pp>>

\* INSERT INTO order_items, one statement for all rows, and its return.  The
\* request fails when the policy's WITH CHECK does, and it can fail for causes
\* outside the page (a product deleted meanwhile breaks the foreign key, the
\* connection is lost): if (itemsError) throw itemsError.
OrderItemsInsert(fails) ==
  /\ co.pc = "items"
  /\ LET rows == OrderItemsOf(co.order, cartItems)
     IN IF fails \/ \E r \in rows : ~OrderItemsInsertCheck(Racer, r)
          THEN /\ co' = CheckoutFailed("order_items")
               /\ UNCHANGED order_items
          ELSE /\ order_items' = order_items \cup rows
               /\ co' = [co EXCEPT !.pc = "clear"]
  /\ UNCHANGED <<avars, ovars, cartItems, wvars, pp>>

\* clearCart of the cart context (useCart), as the page uses it: the cart
\* that the context hands to the page afterwards holds no item
ClearedCart(cart) == {}

\* await clearCart() of the cart context returns: the cart is emptied, or the
\* call throws; then setNewOrderId(order.order_number), setOrderPlaced(true),
\* setCurrentStep(3) and finally setLoading(false).
clearCart(throws) ==
  /\ co.pc = "clear"
  /\ IF throws
       THEN /\ co' = CheckoutFailed("clearCart")
            /\ UNCHANGED cartItems
       ELSE /\ cartItems' = ClearedCart(cartItems)
            /\ co' = [co EXCEPT !.pc = "view", !.newOrderId = orders[co.order].order_number,
                                !.orderPlaced = TRUE, !.currentStep = 3,
                                !.loading = FALSE]
  /\ UNCHANGED <<avars, ovars, order_items, wvars, pp>>

\* handleSubmit of the addresses page for an existing address: UPDATE addresses
\* SET is_default = d, name = n, ... WHERE id = x, sent by uid
handleSubmitUpdate(t, uid, x, d, n) ==
  /\ UNCHANGED <<ovars, cvars, wvars, pp>>
  /\ atx[t].pc = "idle"
  /\ x \in DOMAIN addresses
  /\ atx' = [atx EXCEPT ![t] =
       [AtxIdle EXCEPT !.pc = "row", !.uid = uid, !.kind = "update", !.setd = d,
          !.setn = n,
          !.targets = {i \in {x} : AddrUsing(uid, addresses[i])}]]
  /\ alast' = Started(t)
  /\ UNCHANGED <<addresses, nextAddrId>>

CheckoutInit ==
  /\ order_items = {}
  /\ cartItems = Products
  /\ co = CoClosed

\* The user is at the address book: the checkout page is not mounted and no
\* address statement of the user is under way.
AtAddressBook == atx[1].pc = "idle" /\ co.pc = "closed"

\* the user adds an address at the address book
BookInsert(d, max) ==
  /\ AtAddressBook
  /\ nextAddrId <= max
  /\ AddrInsert(1, Racer, Racer, d)

\* the user edits an address at the address book
BookUpdate(x, d, n) == AtAddressBook /\ handleSubmitUpdate(1, Racer, x, d, n)

\* the user deletes an address at the address book
BookDelete(x) == AtAddressBook /\ handleDelete(1, Racer, x)

\* the user places an order while fewer than max are stored
PlaceOrder(cardOk, max) == nextOrderId <= max /\ handlePaymentSubmit(cardOk)

\* the steps of the checkout page but the placing of the order
CheckoutPage ==
  \/ loadAddresses
  \/ \E a \in AddrIds : selectAddress(a)
  \/ handleAddressSubmit
  \/ BackToShipping
  \/ leaveCheckout
  \/ emptyCartEffect
  \/ OrderResponse
  \/ \E fails \in BOOLEAN : OrderItemsInsert(fails)
  \/ \E throws \in BOOLEAN : clearCart(throws)
  \/ OrderStep(1)

\* a checkout of a user with non-default addresses, and the orders other
\* users place meanwhile
CheckoutNext ==
  \/ CheckoutPage
  \/ \E cardOk \in BOOLEAN : PlaceOrder(cardOk, MaxOrders)
  \/ BookInsert(F, MaxCoAddr)
  \/ AddrWrite(1)
  \/ AddrCommit(1)
  \/ \E u \in Users \ {Racer} : OrderInsert(2, u, u, SqlNull)
  \/ OrderStep(2)

\* a checkout, before and after changes of the user's address book
CheckoutAddrNext ==
  \/ CheckoutPage
  \/ \E cardOk \in BOOLEAN : PlaceOrder(cardOk, MaxCoOrders)
  \/ \E d \in {T, F} : BookInsert(d, MaxBook)
  \/ \E x \in AddrIds, d \in {T, F}, n \in Names : BookUpdate(x, d, n)
  \/ \E x \in AddrIds : BookDelete(x)
  \/ AddrStep(1)

\* ---------------------------------------------------- any user's writes
\* one statement at a time, on either table
NoStatement == atx[1].pc = "idle" /\ otx[1].pc = "idle"

RlsAddrInsert(uid, v, d) ==
  NoStatement /\ nextAddrId <= MaxBook /\ AddrInsert(1, uid, v, d)

RlsAddrUpdateById(uid, x, d) == NoStatement /\ AddrUpdateById(1, uid, x, d)

RlsAddrUpdateByUser(uid, v, d) == NoStatement /\ AddrUpdateByUser(1, uid, v, d, 0)

RlsAddrUpdateOwner(uid, x, v, d) == NoStatement /\ AddrUpdateOwner(1, uid, x, v, d)

RlsAddrDelete(uid, x) == NoStatement /\ handleDelete(1, uid, x)

RlsOrderInsert(uid, v) ==
  NoStatement /\ nextOrderId <= MaxCoOrders /\ OrderInsert(1, uid, v, SqlNull)

\* an update that may leave the name out
RejAddrUpdate(uid, x, d, n) == NoStatement /\ handleSubmitUpdate(1, uid, x, d, n)

\* statements that the table's constraints or the policy may reject
RejectNext ==
  \/ \E uid \in Users, v \in Users, d \in {T, F} : RlsAddrInsert(uid, v, d)
  \/ \E uid \in Users, x \in AddrIds, d \in {T, F}, n \in Names \cup {NULL} :
        RejAddrUpdate(uid, x, d, n)
  \/ \E uid \in Users, d \in {T, F} : RlsAddrUpdateByUser(uid, uid, d)
  \/ \E uid \in Users, x \in AddrIds :
        \E v \in Users \ {uid} : RlsAddrUpdateOwner(uid, x, v, T)
  \/ AddrStep(1)

\* statements of any user that name any row and any owner
RlsNext ==
  \/ \E uid \in Users, v \in Users, d \in {T, F} : RlsAddrInsert(uid, v, d)
  \/ \E uid \in Users, x \in AddrIds, d \in {T, F} : RlsAddrUpdateById(uid, x, d)
  \/ \E uid \in Users, v \in Users, d \in {T, F} : RlsAddrUpdateByUser(uid, v, d)
  \/ \E uid \in Users, x \in AddrIds, v \in Users, d \in {T, F} :
        RlsAddrUpdateOwner(uid, x, v, d)
  \/ \E uid \in Users, x \in AddrIds : RlsAddrDelete(uid, x)
  \/ AddrStep(1)
  \/ \E uid \in Users, v \in Users : RlsOrderInsert(uid, v)
  \/ OrderStep(1)

\* ------------------------------------------------------------ wishlist
\* the products a wishlist can name
WishProducts == {"p1", "p2"}

\* the WishlistButton components of the user on screen, in any tab
Buttons == {1, 2}

\* wishlist rows ever stored
MaxWish == 3

\* a button without a productId (not on screen)
NoProduct == "-"

\* useState(false), useState(false) of WishlistButton; pc is the request its
\* handler toggleWishlist waits for, error the { error } its last request
\* returned
ButtonOff ==
  [productId |-> NoProduct, isInWishlist |-> FALSE, loading |-> FALSE, pc |-> "idle",
   error |-> FALSE]

WishRow(u, p) == [user_id |-> u, product_id |-> p]

\* the policy "Users can manage own wishlist": USING (auth.uid() = user_id)
WishUsing(uid, row) == uid = row.user_id

\* ... WITH CHECK (auth.uid() = user_id)
WishWithCheck(uid, row) == uid = row.user_id

\* a table without the unique index
WishUniqueViolation_Off(tbl, row) == FALSE

\* UNIQUE(user_id, product_id)
WishUniqueViolation(tbl, row) ==
  \E i \in DOMAIN tbl :
     tbl[i].user_id = row.user_id /\ tbl[i].product_id = row.product_id

\* the rows that ... .eq('user_id', uid).eq('product_id', p) reaches when uid
\* sends it
WishRowsOf(uid, p) ==
  {i \in DOMAIN wishlists :
     /\ WishUsing(uid, wishlists[i])
     /\ wishlists[i].user_id = uid
     /\ wishlists[i].product_id = p}

\* .single(): data when exactly one row is found, an error otherwise; the
\* client returns the error, it does not throw
Single(S) == IF Cardinality(S) = 1 THEN "data" ELSE "error"

\* the wishlist page with no handler running
WpageIdle == [pc |-> "idle", productId |-> NoProduct]

\* inserts the buttons have sent and not yet heard of
PendingInserts == {b \in Buttons : buttons[b].pc = "insert"}

\* The button is given the productId p (it comes on screen, or its product
\* changes): the effect calls checkWishlistStatus, whose select ... single()
\* and its return are one step.  if (!error && data) setIsInWishlist(true);
\* nothing is set otherwise.
checkWishlistStatus(b, p) ==
  /\ buttons[b].pc = "idle"
  /\ p # buttons[b].productId
  /\ buttons' = [buttons EXCEPT ![b].productId = p,
                    ![b].isInWishlist =
                       IF Single(WishRowsOf(Racer, p)) = "data" THEN TRUE ELSE @]
  /\ UNCHANGED <<wishlists, nextWishId>>
  /\ UNCHANGED <<avars, ovars, cvars, pp, wpage>>

\* the button leaves the screen: its state is gone
unmountButton(b) ==
  /\ buttons[b].pc = "idle"
  /\ buttons[b].productId # NoProduct
  /\ buttons' = [buttons EXCEPT ![b] = ButtonOff]
  /\ UNCHANGED <<wishlists, nextWishId>>
  /\ UNCHANGED <<avars, ovars, cvars, pp, wpage>>

\* toggleWishlist up to its await: the button is disabled while loading; the
\* delete is sent when isInWishlist, the insert otherwise
toggleWishlist(b) ==
  /\ buttons[b].pc = "idle"
  /\ buttons[b].productId # NoProduct
  /\ ~buttons[b].loading
  /\ buttons[b].isInWishlist
       \/ nextWishId + Cardinality(PendingInserts) <= MaxWish
  /\ buttons' = [buttons EXCEPT ![b].loading = TRUE,
                    ![b].pc = IF buttons[b].isInWishlist THEN "delete" ELSE "insert"]
  /\ UNCHANGED <<wishlists, nextWishId>>
  /\ UNCHANGED <<avars, ovars, cvars, pp, wpage>>

\* The request of toggleWishlist is carried out and returns.  The delete
\* removes the rows it reaches and returns no error; the insert is rejected
\* by the unique index or the policy, or stores the row.
\* if (!error) setIsInWishlist(...); finally setLoading(false).
toggleResponse(b) ==
  /\ buttons[b].pc \in {"delete", "insert"}
  /\ LET p == buttons[b].productId
         row == WishRow(Racer, p)
     IN IF buttons[b].pc = "delete"
          THEN /\ wishlists' = [i \in (DOMAIN wishlists) \ WishRowsOf(Racer, p) |->
                                  wishlists[i]]
               /\ buttons' = [buttons EXCEPT ![b].isInWishlist = FALSE,
                                 ![b].error = FALSE,
                                 ![b].loading = FALSE, ![b].pc = "idle"]
               /\ UNCHANGED nextWishId
          ELSE IF WishUniqueViolation(wishlists, row) \/ ~WishWithCheck(Racer, row)
            THEN /\ buttons' = [buttons EXCEPT ![b].error = TRUE,
                                   ![b].loading = FALSE, ![b].pc = "idle"]
                 /\ UNCHANGED <<wishlists, nextWishId>>
            ELSE /\ wishlists' = (nextWishId :> row) @@ wishlists
                 /\ nextWishId' = nextWishId + 1
                 /\ buttons' = [buttons EXCEPT ![b].isInWishlist = TRUE,
                                   ![b].error = FALSE,
                                   ![b].loading = FALSE, ![b].pc = "idle"]
  /\ UNCHANGED <<avars, ovars, cvars, pp, wpage>>

\* removeFromWishlist of the wishlist page, for a product the page lists
removeFromWishlist(p) ==
  /\ WishRowsOf(Racer, p) # {}
  /\ wishlists' = [i \in (DOMAIN wishlists) \ WishRowsOf(Racer, p) |-> wishlists[i]]
  /\ UNCHANGED <<nextWishId, buttons>>
  /\ UNCHANGED <<avars, ovars, cvars, pp, wpage>>

\* another user adds a product to their own wishlist
WishInsert(uid, p) ==
  /\ nextWishId + Cardinality(PendingInserts) <= MaxWish
  /\ ~WishUniqueViolation(wishlists, WishRow(uid, p))
  /\ WishWithCheck(uid, WishRow(uid, p))
  /\ wishlists' = (nextWishId :> WishRow(uid, p)) @@ wishlists
  /\ nextWishId' = nextWishId + 1
  /\ UNCHANGED buttons
  /\ UNCHANGED <<avars, ovars, cvars, pp, wpage>>

\* The wishlist page: moveToCart(productId) is called for a product the page
\* lists and waits for addToCart.
moveToCart(p) ==
  /\ wpage.pc = "idle"
  /\ WishRowsOf(Racer, p) # {}
  /\ wpage' = [pc |-> "addToCart", productId |-> p]
  /\ UNCHANGED <<wishlists, nextWishId, buttons>>
  /\ UNCHANGED <<avars, ovars, cvars, pp>>

\* the cart after addToCart(p) of the cart context, which stored the product
\* (ok) or met an error
AddedToCart(cart, p, ok) == IF ok THEN cart \cup {p} ELSE cart

\* addToCart returns to moveToCart: a library error is caught inside it and
\* shown as a message, so that moveToCart goes on to its second await
addToCart(ok) ==
  /\ wpage.pc = "addToCart"
  /\ cartItems' = AddedToCart(cartItems, wpage.productId, ok)
  /\ wpage' = [wpage EXCEPT !.pc = "removeFromWishlist"]
  /\ UNCHANGED <<wishlists, nextWishId, buttons>>
  /\ UNCHANGED <<avars, ovars, order_items, co, pp>>

\* await removeFromWishlist(productId) of moveToCart
moveToCartRemove ==
  /\ wpage.pc = "removeFromWishlist"
  /\ wishlists' = [i \in (DOMAIN wishlists) \ WishRowsOf(Racer, wpage.productId) |->
                     wishlists[i]]
  /\ wpage' = WpageIdle
  /\ UNCHANGED <<nextWishId, buttons>>
  /\ UNCHANGED <<avars, ovars, cvars, pp>>

WishInit ==
  /\ wishlists = <<>>
  /\ nextWishId = 1
  /\ buttons = [b \in Buttons |-> ButtonOff]
  /\ wpage = WpageIdle

\* the user's buttons and wishlist page, and another user's wishlist
WishNext ==
  \/ \E b \in Buttons, p \in WishProducts : checkWishlistStatus(b, p)
  \/ \E b \in Buttons : unmountButton(b)
  \/ \E b \in Buttons : toggleWishlist(b)
  \/ \E b \in Buttons : toggleResponse(b)
  \/ \E p \in WishProducts : removeFromWishlist(p)
  \/ \E p \in WishProducts : moveToCart(p)
  \/ \E ok \in BOOLEAN : addToCart(ok)
  \/ moveToCartRemove
  \/ \E u \in Users \ {Racer}, p \in WishProducts : WishInsert(u, p)

\* ------------------------------------------------------- products page
\* the values of sortBy the page offers
SortOrders == {"name", "price_low", "price_high"}

\* the active products
Catalog == {[name |-> 1, price |-> 20], [name |-> 2, price |-> 10]}

\* loads the page sends
MaxLoads == 4

\* query.order(...) of loadProducts: the switch on sortBy
Before(sortBy, x, y) ==
  CASE sortBy = "price_low" -> x.price < y.price
    [] sortBy = "price_high" -> x.price > y.price
    [] OTHER -> x.name < y.name

\* the rows the query returns for sortBy
Query(sortBy) ==
  CHOOSE s \in [1..Cardinality(Catalog) -> Catalog] :
    \A i, j \in DOMAIN s : i < j => Before(sortBy, s[i], s[j])

\* useState([]), useState(true), useState('name') of ProductsPage, with the
\* loads sent and not yet answered; fresh: the load sent last has returned
\* rows
PpInit ==
  pp = [sortBy |-> "name", products |-> <<>>, loading |-> TRUE, inflight |-> {},
        sent |-> 0, fresh |-> FALSE]

\* The effect runs after the first render and after sortBy has changed to f:
\* loadProducts sets loading and sends the query built from the filter values
\* of that render.
loadProducts(f) ==
  /\ pp.sent < MaxLoads
  /\ IF pp.sent = 0 THEN f = pp.sortBy ELSE f # pp.sortBy
  /\ pp' = [pp EXCEPT !.sortBy = f, !.loading = TRUE, !.sent = @ + 1,
               !.fresh = FALSE,
               !.inflight = @ \cup {[id |-> pp.sent + 1, sortBy |-> f]}]
  /\ UNCHANGED <<avars, ovars, cvars, wvars>>

\* a query returns, with rows (ok) or with an error:
\* if (!error && data) setProducts(data); finally setLoading(false)
loadProductsDone(r, ok) ==
  /\ r \in pp.inflight
  /\ pp' = [pp EXCEPT !.products = IF ok THEN Query(r.sortBy) ELSE @,
               !.fresh = IF ok /\ r.id = pp.sent THEN TRUE ELSE @,
               !.loading = FALSE,
               !.inflight = @ \ {r}]
  /\ UNCHANGED <<avars, ovars, cvars, wvars>>

ProductsNext ==
  \/ \E f \in SortOrders : loadProducts(f)
  \/ \E id \in 1..MaxLoads, f \in SortOrders, ok \in BOOLEAN :
        loadProductsDone([id |-> id, sortBy |-> f], ok)

\* ------------------------------------------------------ specifications
Init == AddrInit /\ OrderInit /\ CheckoutInit /\ WishInit /\ PpInit

\* address statements, one at a time
SpecAddr == Init /\ [][AddrNextSerial]_vars

\* address statements of two sessions of one user, interleaved
SpecAddrConc == Init /\ [][AddrNextConc]_vars

\* order inserts, one at a time
SpecOrders == Init /\ [][OrderNextSerial]_vars

\* order inserts of two sessions, interleaved
SpecOrdersConc == Init /\ [][OrderNextConc]_vars

\* a checkout, with the address book and other users' orders
SpecCheckout == Init /\ [][CheckoutNext]_vars

\* statements of any user on addresses and orders, one at a time
SpecRls == Init /\ [][RlsNext]_vars

\* address statements that may be rejected, one at a time
SpecAddrReject == Init /\ [][RejectNext]_vars

\* wishlist buttons and the wishlist page
SpecWish == Init /\ [][WishNext]_vars

\* the products page and its loads
SpecProducts == Init /\ [][ProductsNext]_vars

\* a checkout, with changes of the address book
SpecCheckoutAddr == Init /\ [][CheckoutAddrNext]_vars

\* --------------------------------------------------------- properties
\* C1: after any sequence of committed address inserts, updates and deletes
\* with arbitrary is_default values, issued by any users, every user owns at
\* most one address row with is_default = true.
C1_AtMostOneDefault ==
  \A u \in Users : Cardinality(DefaultsOf(addresses, u)) <= 1

\* a committed write with is_default = true found another row of its owner to
\* be the default, and the owner has one default
C1_DefaultReplaced ==
  /\ alast[1].res = "ok"
  /\ alast[1].d = T
  /\ alast[1].displaced
  /\ Cardinality(DefaultsOf(addresses, alast[1].owner)) = 1
  /\ \E u \in Users \ {alast[1].owner} : DefaultsOf(addresses, u) # {}

\* C7: setting is_default = true on address A and then on address B of the
\* same owner leaves B the owner's only default and A non-default: right after
\* a committed write of is_default = true to one row, that row is the owner's
\* only default.
C7_LastSetIsOnlyDefault ==
  alast[1].res = "ok" /\ alast[1].d = T /\ alast[1].id # 0
    => DefaultsOf(addresses, alast[1].owner) = {alast[1].id}

\* {A: default, B: non-default}, then B updated to default
C7_UpdatedOverOldDefault ==
  /\ alast[1].kind = "update"
  /\ alast[1].res = "ok"
  /\ alast[1].d = T
  /\ alast[1].id # 0
  /\ alast[1].displaced
  /\ \E a \in DOMAIN addresses :
        /\ a # alast[1].id
        /\ addresses[a].user_id = alast[1].owner
        /\ addresses[a].is_default = F

\* both sessions have finished a committed write that carried is_default = true,
\* and the two statements were in flight at the same time
BothSetDefault(kinds) ==
  \A t \in Tx :
    /\ atx[t].pc = "idle"
    /\ alast[t].res = "ok"
    /\ alast[t].overlap
    /\ alast[t].d = T
    /\ alast[t].id # 0
    /\ alast[t].kind \in kinds

\* C2: two concurrent writes of one user that both carry is_default = true
\* (two updates of different rows, or two inserts) leave, once both have
\* completed, exactly one default address.
C2_ConcurrentDefaultsLeaveOne ==
  BothSetDefault({"insert", "update"}) /\ alast[1].id # alast[2].id
    => Cardinality(DefaultsOf(addresses, Racer)) = 1

\* ------------------------------------------------- order numbers
\* the text ORD-<day>-<n zero-padded to 4 digits>
Numbered(day, n) == OrderPrefix(day) \o LPAD(IntToText(n), 4, "0")

Suffix(row) == SubstringFrom(row.order_number, 14)

\* the rows other than id that carry a number of the day's form
RowsNumberedFor(day, id) ==
  {i \in DOMAIN orders \ {id} : LikePrefix(orders[i].order_number, OrderPrefix(day))}

\* the greatest suffix among the rows S, 0 when there is none
MaxSuffix(S) ==
  IF S = {} THEN 0 ELSE SetMax({CastInteger(Suffix(orders[i])) : i \in S})

\* session 1 has just committed an insert that left the number to the allocator
JustAutoNumbered ==
  olast[1].res = "ok" /\ NoNumber(olast[1].preset)

C4_CountsOrdersOfAllUsers ==
  LET l == olast[1]
      ofDay == RowsNumberedFor(l.now, l.id)
  IN (/\ l.res \in {"ok", "error"}
      /\ NoNumber(l.preset)
      /\ l.v = l.uid
      /\ \A i \in DOMAIN orders \ {l.id} :
            orders[i].user_id = l.uid => orders[i].day # l.now
      /\ \E i \in ofDay : orders[i].user_id # l.uid
      /\ \A i \in ofDay : IsInteger(Suffix(orders[i]))
      /\ MaxSuffix(ofDay) < 9999)
     => /\ l.res = "ok"
        /\ orders[l.id].order_number = Numbered(l.now, MaxSuffix(ofDay) + 1)

\* C5: two concurrent order inserts on the same day, by the same or different
\* users, never end with two committed orders that share an order number.
C5_OrderNumbersUnique ==
  \A i, j \in DOMAIN orders :
    i # j => orders[i].order_number # orders[j].order_number

\* two overlapping inserts were given the same number by the allocator; one
\* is committed and the other was rejected by the unique index
C5_RaceRejected ==
  \E t \in Tx, o \in Tx :
    /\ t # o
    /\ olast[t].res = "error" /\ olast[t].why = "unique" /\ olast[t].overlap
    /\ NoNumber(olast[t].preset)
    /\ olast[o].res = "ok" /\ olast[o].overlap /\ NoNumber(olast[o].preset)
    /\ olast[o].number = olast[t].number
    /\ olast[o].now = olast[t].now

C8_SuffixIsCounter ==
  \A t \in Tx :
    otx[t].pc \in {"ins", "commit"} /\ NoNumber(otx[t].preset) =>
      LET number == otx[t].number
          sfx == SubstringFrom(number, 14)
      IN /\ LikePrefix(number, <<"O", "R", "D", "-">>)
         /\ SubSeq(number, 5, 12) = DayText(otx[t].now)
         /\ Len(DayText(otx[t].now)) = 8
         /\ number[13] = "-"
         /\ Len(sfx) = 4
         /\ \A k \in 1..Len(sfx) : IsDigit(sfx[k])
         /\ DigitsValue(sfx) = otx[t].counter

\* the numbers of day d that the allocator has written into committed rows
IssuedFor(d) ==
  {CastInteger(SubstringFrom(n, 14)) : n \in {m \in issued : LikePrefix(m, OrderPrefix(d))}}

C10_BadSuffixCountsAsZero ==
  LET l == olast[1]
      mine == {i \in RowsNumberedFor(l.now, l.id) : orders[i].user_id = l.uid}
      counter ==
        (IF mine = {} THEN 0
         ELSE SetMax({IF IsInteger(Suffix(orders[i])) THEN CastInteger(Suffix(orders[i]))
                      ELSE 0 : i \in mine})) + 1
  IN (/\ l.res \in {"ok", "error"}
      /\ NoNumber(l.preset)
      /\ l.v = l.uid
      /\ \E i \in mine : ~IsInteger(Suffix(orders[i]))
      /\ counter <= 9999
      /\ \A i \in DOMAIN orders \ {l.id} :
            orders[i].order_number # Numbered(l.now, counter))
     => /\ l.res = "ok"
        /\ orders[l.id].order_number = Numbered(l.now, counter)

\* C11: an order insert never commits with the order number of an existing
\* order: when the number the trigger returned equals that of a stored order
\* (as it does once the day's suffix has reached 9999), the insert ends in an
\* error and the orders table is as before; every row a step adds carries a
\* number no row had.
C11_CollisionRejected ==
  [][(/\ \A t \in Tx :
           (/\ otx[t].pc = "ins"
            /\ otx'[t].pc # "ins"
            /\ \E i \in DOMAIN orders : orders[i].order_number = otx[t].number)
             => (/\ orders' = orders
                 /\ otx'[t].pc = "idle"
                 /\ olast'[t].res = "error")
      /\ \A j \in DOMAIN orders' \ DOMAIN orders :
            \A i \in DOMAIN orders :
               orders[i].order_number # orders'[j].order_number)]_vars

\* the suffix had reached 9999, the allocator computed a number that a stored
\* order carries, and the insert was rejected by the unique index
C11_RejectedPast9999 ==
  /\ olast[1].res = "error"
  /\ olast[1].why = "unique"
  /\ olast[1].counter = 10000
  /\ \E i \in DOMAIN orders : orders[i].order_number = olast[1].number

\* ------------------------------------------------------- checkout claims
\* the order rows the checkout page has created
CheckoutOrders == {i \in DOMAIN orders : orders[i].shipping_address # NoShip}

\* C12: every order that exists has its order items: once a submission of the
\* checkout has ended, in whatever way, each order row the checkout created is
\* stored with the order_items rows of the cart it was created from.
C12_OrdersHaveItems ==
  co.pc \in {"closed", "view"} =>
    \A i \in CheckoutOrders : OrderItemsOf(i, Products) \subseteq order_items

\* ------------------------------------------------ address claims, continued
\* C13: an address insert or update whose resulting is_default is not true
\* (false, or null) changes no other address row: at its commit every row the
\* statement did not name is stored as before, is_default and texts alike.
C13_NonDefaultWriteTouchesNoSibling ==
  [][(/\ addresses' # addresses
      /\ atx[1].kind \in {"insert", "update"}
      /\ \A w \in atx[1].outer : atx[1].writes[w].is_default # T)
       => \A i \in DOMAIN addresses \ atx[1].outer :
             i \in DOMAIN addresses' /\ addresses'[i] = addresses[i]]_vars

\* a write with is_default = false was committed while another address of its
\* owner is the default
C13_WrittenBesideDefault ==
  /\ alast[1].res = "ok"
  /\ alast[1].d = F
  /\ alast[1].id # 0
  /\ \E a \in DOMAIN addresses :
        /\ a # alast[1].id
        /\ addresses[a].user_id = alast[1].owner
        /\ addresses[a].is_default = T

\* C14: a write issued by user U, the trigger's clearing of sibling rows
\* included, changes no row owned by another user, whatever ids and user_id
\* values U supplies: a step that changes the addresses table leaves every row
\* of another owner as it was and stores no row for another owner, and so does
\* a step that changes the orders table.
C14_WritesStayWithOwner ==
  [][(/\ (addresses' # addresses) =>
           (/\ \A i \in DOMAIN addresses :
                  (addresses[i].user_id # atx[1].uid)
                    => (i \in DOMAIN addresses' /\ addresses'[i] = addresses[i])
            /\ \A i \in DOMAIN addresses' :
                  (addresses'[i].user_id # atx[1].uid)
                    => (i \in DOMAIN addresses /\ addresses[i] = addresses'[i]))
      /\ (orders' # orders) =>
           (/\ \A i \in DOMAIN orders : i \in DOMAIN orders' /\ orders'[i] = orders[i]
            /\ \A i \in DOMAIN orders' \ DOMAIN orders :
                  orders'[i].user_id = otx[1].uid))]_vars

\* a user's statement that set is_default = true for a row named as another
\* user's was rejected while that user has a default address
C14_ForeignWriteRejected ==
  /\ alast[1].res = "error"
  /\ alast[1].kind \in {"insert", "update"}
  /\ \E i \in DOMAIN addresses :
        addresses[i].user_id # alast[1].owner /\ addresses[i].is_default = T
  /\ \E i \in DOMAIN addresses : addresses[i].user_id = alast[1].owner
  /\ \E i \in DOMAIN orders : orders[i].user_id # alast[1].owner

\* ---------------------------------------------------------------------
\* C15: an order's shipping_address is a copy of the texts of the address
\* selected at checkout, taken when the order row is created; no later step
\* (an address update or delete included) changes the shipping_address of an
\* order that exists
C15_ShippingAddressIsCopy ==
  [][(/\ \A i \in (DOMAIN orders) \cap (DOMAIN orders') :
           orders'[i].shipping_address = orders[i].shipping_address
      /\ \A i \in (DOMAIN orders') \ (DOMAIN orders) :
           /\ co.selectedAddress # NoAddress
           /\ orders'[i].shipping_address = [name |-> co.selectedAddress.name])]_vars

\* an order keeps the name "a" after the user's address was rewritten to "b"
\* and no address row carries "a" any more
C15_AddressEditedAfterOrder ==
  \E i \in DOMAIN orders :
     /\ orders[i].shipping_address = [name |-> "a"]
     /\ \E j \in DOMAIN addresses :
           addresses[j].user_id = orders[i].user_id /\ addresses[j].name = "b"
     /\ \A j \in DOMAIN addresses : addresses[j].name # "a"

\* ---------------------------------------------------------------------
\* C16: a rejected address write leaves every address row as it was before
\* the write, the rows the hook had cleared included; the rows change only
\* when a statement commits
C16_RejectedWriteUndone ==
  [][(/\ \A t \in Tx :
           (alast'[t] # alast[t] /\ alast'[t].res = "error")
             => addresses' = addresses
      /\ (addresses' # addresses)
           => \E t \in Tx : alast'[t] # alast[t] /\ alast'[t].res = "ok")]_vars

\* a statement was rejected after the hook had cleared another address of the
\* user, and that address is the default again
C16_ClearedThenRejected ==
  /\ alast[1].res = "error"
  /\ alast[1].undone
  /\ DefaultsOf(addresses, alast[1].owner) # {}

\* ---------------------------------------------------------------------
\* C17: no insert or update of a user's own address, with every required
\* column given, ends in an error, whatever the user's other sessions write
\* at the same time
C17_HookNeverRejects ==
  \A t \in Tx :
     (alast[t].kind \in {"insert", "update"} /\ alast[t].owner = Racer)
       => alast[t].res # "error"

C19_OtherDaysDoNotCount ==
  LET l == olast[1]
      others == DOMAIN orders \ {l.id}
      ofDay == {i \in others : orders[i].day = l.now}
  IN (/\ l.res \in {"ok", "error"}
      /\ NoNumber(l.preset)
      /\ l.v = l.uid
      /\ \A i \in others : orders[i].auto /\ orders[i].counter < 9999
      /\ \E i \in others : orders[i].day # l.now
      /\ Cardinality(ofDay) <= 1)
     => /\ l.res = "ok"
        /\ orders[l.id].order_number = Numbered(l.now, Cardinality(ofDay) + 1)

\* ---------------------------------------------------------------------
\* C20: a row is the default after a step only if it was the default before
\* or the statement itself wrote it with is_default = true; an insert with
\* is_default = false for a user who has no address leaves the user with no
\* default address
C20_NoPromotion ==
  [][(/\ \A i \in DOMAIN addresses' :
           (/\ addresses'[i].is_default = T
            /\ ~(i \in DOMAIN addresses /\ addresses[i].is_default = T))
             => \E t \in Tx : i \in atx[t].outer /\ atx[t].setd = T
      /\ \A t \in Tx :
           (/\ alast'[t] # alast[t]
            /\ alast'[t].res = "ok"
            /\ alast'[t].kind = "insert"
            /\ alast'[t].d = F
            /\ \A i \in DOMAIN addresses : addresses[i].user_id # alast'[t].owner)
             => DefaultsOf(addresses', alast'[t].owner) = {})]_vars

\* the first address of a user was inserted with is_default = false and the
\* user has no default address
C20_FirstAddressNotDefault ==
  /\ alast[1].res = "ok"
  /\ alast[1].kind = "insert"
  /\ alast[1].d = F
  /\ nextAddrId = 2
  /\ DOMAIN addresses = {alast[1].id}
  /\ addresses[alast[1].id].user_id = alast[1].owner
  /\ DefaultsOf(addresses, alast[1].owner) = {}

\* ---------------------------------------------------------------------
\* C21: after a successful order placement the page stays on the confirmation:
\* the page with orderPlaced = true is left only by a link the user follows,
\* never by the empty-cart redirect to /cart
C21_ConfirmationStays ==
  [][(co.orderPlaced /\ co'.pc = "closed") => co'.navigated # "/cart"]_vars

\* ---------------------------------------------------------------------
\* C22: one checkout creates at most one order row: an order row of the page
\* is stored only when no order row was stored earlier in the same visit of
\* the page (co.order is the row of the visit's earlier submission), whatever
\* became of that submission's order_items insert and clearCart
C22_OneOrderPerCheckout ==
  [][\A i \in (DOMAIN orders') \ (DOMAIN orders) :
        orders'[i].shipping_address # NoShip => co.order = 0]_vars

\* ---------------------------------------------------------------------
\* C23: if setAsDefault fails, the user's default address is unchanged: when
\* the handler's second write is rejected and the user had a default address
\* at the call, the user has a default address at the end
C23_FailedSetAsDefaultKeepsDefault ==
  [][\A t \in Tx :
       (/\ atx[t].call = "setAsDefault"
        /\ atx[t].was
        /\ alast'[t] # alast[t]
        /\ alast'[t].res = "error")
         => DefaultsOf(addresses', atx[t].uid) # {}]_vars

C25_FlagEqualsRow ==
  [][\A b \in Buttons :
       (/\ buttons'[b] # buttons[b]
        /\ buttons'[b].pc = "idle"
        /\ buttons'[b].productId # NoProduct)
         => (buttons'[b].isInWishlist
               <=> \E i \in DOMAIN wishlists' :
                      wishlists'[i] = WishRow(Racer, buttons'[b].productId))]_vars

\* C27: once every load has been answered and the load sent last returned
\* rows, the list shown is the result for the current filter; and loading is
\* false only when no load is outstanding.
C27_LatestFilterShown ==
  /\ (pp.inflight = {} /\ pp.fresh) => pp.products = Query(pp.sortBy)
  /\ ~pp.loading => pp.inflight = {}

\* C29: the wishlist never holds two rows for one (user, product); a toggle
\* whose insert meets the row already stored changes neither the rows nor
\* the button's isInWishlist, and every completed toggle leaves loading
\* false.
C29_NoDuplicateRows ==
  [][(/\ \A i, j \in DOMAIN wishlists' : wishlists'[i] = wishlists'[j] => i = j
      /\ \A b \in Buttons :
           (buttons[b].pc # "idle" /\ buttons'[b].pc = "idle")
             => /\ ~buttons'[b].loading
                /\ (/\ buttons[b].pc = "insert"
                    /\ \E i \in DOMAIN wishlists :
                          wishlists[i] = WishRow(Racer, buttons[b].productId))
                     => /\ wishlists' = wishlists
                        /\ buttons'[b].isInWishlist = buttons[b].isInWishlist)]_vars

\* a button's insert has been refused with the row in the table
C29_DuplicateRefused ==
  \E b \in Buttons :
     /\ buttons[b].error
     /\ buttons[b].pc = "idle"
     /\ ~buttons[b].loading
     /\ ~buttons[b].isInWishlist
     /\ Cardinality(WishRowsOf(Racer, buttons[b].productId)) = 1

\* C28: moveToCart takes the product off the wishlist only with the product
\* in the cart, so that the product is in one of the two lists.
C28_MovedProductInCart ==
  [][(wpage.pc = "removeFromWishlist" /\ wpage'.pc = "idle")
       => wpage.productId \in cartItems']_vars

\* the rows of the user whose statement session t runs
AddrRowsOfWriter(t) == {i \in DOMAIN addresses : addresses[i].user_id = atx[t].uid}

\* what a statement in flight still has to do: its target rows, each with
\* its trigger and the trigger's UPDATE, and the rows left of the UPDATE that
\* is running
AddrWorkLeft(t) ==
  IF atx[t].pc \in {"row", "sib"}
    THEN 1 + Cardinality(atx[t].targets) * (MaxAddr + 2)
           + (IF atx[t].pc = "sib" THEN Cardinality(atx[t].sibs) + 1 ELSE 0)
    ELSE 0

\* C26: a statement on addresses that has started can always take a step,
\* every step leaves it less to do, so that it comes to its end, and the
\* trigger is invoked in it at most once more than the user has addresses.
C26_WriteTerminates ==
  /\ [](atx[1].pc \in {"row", "sib"} => ENABLED AddrStep(1))
  /\ [][atx[1].pc \in {"row", "sib"} => AddrWorkLeft(1)' < AddrWorkLeft(1)]_vars
  /\ [](atx[1].fired <= Cardinality(AddrRowsOfWriter(1)) + 1)

\* an insert whose trigger has been invoked for the new row and for each of
\* the user's two other rows
C26_TriggerRefiredOnSiblings ==
  /\ atx[1].kind = "insert"
  /\ atx[1].pc = "sib"
  /\ atx[1].sibs = {}
  /\ Cardinality(AddrRowsOfWriter(1)) = 2
  /\ atx[1].fired = 3
====
